---- MODULE Spec2Model ----
(***************************************************************************)
(* Model of the data-reshaping and evaluation layer of the notebook        *)
(* movie_recommendation_embeddings_Neuran_network.ipynb: the scorer        *)
(* get_mse_loss, the two baselines (bs1_prediction, bs2_predictor), the    *)
(* binarization call sites and the customutil helpers they rely on.        *)
(*                                                                         *)
(* Numbers.  Python floats are modelled as exact rationals [n, d] in       *)
(* lowest terms with d > 0, plus NaN (d = 0).  IEEE rounding error of the  *)
(* individual operations is not modelled; round(x, 2) is modelled as       *)
(* rounding the exact quotient to the nearest hundredth, ties to even.     *)
(***************************************************************************)
EXTENDS Integers, Sequences, FiniteSets, TLC

\* ------------------------------------------------------------------ bounds
MaxLen == 3            \* longest result / label list handed to get_mse_loss
MaxTrain == 3          \* most rating records in the training file
MaxInstances == 2      \* most instances in one bs2_predictor call
MaxValid == 2          \* most rows in validation_data_list

\* ----------------------------------------------------------------- numbers
Abs(i) == IF i < 0 THEN -i ELSE i

RECURSIVE GCD(_, _)
GCD(a, b) == IF b = 0 THEN a ELSE GCD(b, a % b)

NaN == [n |-> 0, d |-> 0]
IsNaN(x) == x.d = 0

Rat(n, d) ==
    LET g == GCD(Abs(n), d) IN [n |-> n \div g, d |-> d \div g]

Num(i) == [n |-> i, d |-> 1]

\* sums and differences over the least common denominator
NumAdd(x, y) ==
    IF IsNaN(x) \/ IsNaN(y) THEN NaN
    ELSE LET g == GCD(x.d, y.d) IN
         Rat(x.n * (y.d \div g) + y.n * (x.d \div g), (x.d \div g) * y.d)

NumSub(x, y) ==
    IF IsNaN(x) \/ IsNaN(y) THEN NaN
    ELSE LET g == GCD(x.d, y.d) IN
         Rat(x.n * (y.d \div g) - y.n * (x.d \div g), (x.d \div g) * y.d)

NumSquare(x) ==
    IF IsNaN(x) THEN NaN ELSE Rat(x.n * x.n, x.d * x.d)

\* x / float(k), k > 0
NumDiv(x, k) ==
    IF IsNaN(x) THEN NaN ELSE Rat(x.n, x.d * k)

\* x > y; every comparison with NaN is False
NumGt(x, y) ==
    /\ ~IsNaN(x)
    /\ ~IsNaN(y)
    /\ x.n * y.d > y.n * x.d

\* nearest integer to n/d (d > 0), ties to even
RoundHalfEven(n, d) ==
    LET q == n \div d
        r == n % d
    IN  IF 2 * r < d THEN q
        ELSE IF 2 * r > d THEN q + 1
        ELSE IF q % 2 = 0 THEN q ELSE q + 1

\* round(x, 2); round(nan, 2) is nan
Round2(x) ==
    IF IsNaN(x) THEN NaN ELSE Rat(RoundHalfEven(100 * x.n, x.d), 100)

\* ---------------------------------------------------------- call outcomes
Return(v) == [kind |-> "return", val |-> v]
Raise(e) == [kind |-> "raise", exc |-> e]
NotCalled == [kind |-> "none"]

\* ------------------------------------------------------- Python values
\* a list of rows, or a dict holding the list under 'predictions'
PyList(s) == [type |-> "list", items |-> s]
PyPredictionsDict(s) == [type |-> "dict", predictions |-> s]
\* a row: a bare number, or a dict holding a list under 'scores'
BareRow(x) == [type |-> "num", v |-> x]
ScoresRow(s) == [type |-> "dict", scores |-> s]

VARIABLES
    res, labels, mse,                 \* get_mse_loss: arguments and outcome
    train_file,                       \* rows of ml-100k/ua.base, in file order
    to_users_dict, to_movies_dict,    \* the per-user and per-movie indexes
    test_data, is_classification, thres, bs2,
                                      \* bs2_predictor: arguments and outcome
    train_data_list, validation_data_list,
                                      \* the loaded (and shuffled) data lists
    valid_r_data, valid_r_label,      \* validation data in inference format
    bs1_prediction, bs1_predictions, bs1_loss,
                                      \* baseline 1 and its validation loss
    train_c, valid_c,                 \* the binarized data lists
    valid_c_data, valid_c_label,      \* binarized validation data, inference format
    predictions, accuracy,            \* predictor_2's answer and its accuracy
    train_r_jsonl, validation_r_jsonl, train_c_jsonl, validation_c_jsonl,
                                      \* the JSON-lines files written locally
    s3, input_paths,                  \* uploaded keys, channels of the next fit
    regressor, classifier,            \* the two estimators
    endpoints,                        \* status of each endpoint of the service
    predictor, predictor_2,           \* the notebook's endpoint handles
    prediction,                       \* predictor's answer
    requests,                         \* inference requests the service received
    pc                                \* the cell the run has reached

scorerVars == <<res, labels, mse>>
indexVars == <<train_file, to_users_dict, to_movies_dict>>
bs2Vars == <<test_data, is_classification, thres, bs2>>
dataVars == <<train_data_list, validation_data_list>>
bs1Vars == <<valid_r_data, valid_r_label, bs1_prediction, bs1_predictions, bs1_loss>>
labelVars == <<train_c, valid_c, valid_c_data, valid_c_label>>
accVars == <<predictions, accuracy>>
fileVars == <<train_r_jsonl, validation_r_jsonl, train_c_jsonl, validation_c_jsonl>>
cloudVars == <<s3, input_paths, regressor, classifier, endpoints, predictor, predictor_2,
               prediction, requests>>
vars == <<res, labels, mse, train_file, to_users_dict, to_movies_dict,
          test_data, is_classification, thres, bs2,
          train_data_list, validation_data_list,
          valid_r_data, valid_r_label, bs1_prediction, bs1_predictions, bs1_loss,
          train_c, valid_c, valid_c_data, valid_c_label,
          predictions, accuracy,
          train_r_jsonl, validation_r_jsonl, train_c_jsonl, validation_c_jsonl,
          s3, input_paths, regressor, classifier, endpoints, predictor, predictor_2,
          prediction, requests, pc>>

\* ------------------------------------------------------------ get_mse_loss
\* if type(res) is dict: res = res['predictions']
Unwrap(r) == IF r.type = "dict" THEN r.predictions ELSE r.items

\* one pass of the body of `for row, label in zip(res, labels)`
RowLoss(row, label) ==
    IF row.type = "dict"
    THEN NumSquare(NumSub(row.scores[1], label))
    ELSE NumSquare(NumSub(row.v, label))

Min(a, b) == IF a < b THEN a ELSE b

\* the loop: loss after the first k pairs of zip(rows, labs)
RECURSIVE LossLoop(_, _, _)
LossLoop(rows, labs, k) ==
    IF k = 0 THEN Num(0)
    ELSE NumAdd(LossLoop(rows, labs, k - 1), RowLoss(rows[k], labs[k]))

\* variant of get_mse_loss without the length assertion (zip truncates)
get_mse_loss_no_assert(r, labs) ==
    LET rows == Unwrap(r) IN
    IF Len(labs) = 0 THEN Raise("ZeroDivisionError")
    ELSE Return(Round2(NumDiv(LossLoop(rows, labs, Min(Len(rows), Len(labs))),
                              Len(labs))))

\* variant of get_mse_loss that cuts the quotient off after two decimals
get_mse_loss_truncate(r, labs) ==
    LET rows == Unwrap(r)
        total == LossLoop(rows, labs, Min(Len(rows), Len(labs)))
    IN  IF Len(rows) # Len(labs) THEN Raise("AssertionError")
        ELSE IF Len(labs) = 0 THEN Raise("ZeroDivisionError")
        ELSE Return(Rat((100 * total.n) \div (total.d * Len(labs)), 100))

\* variant of get_mse_loss that reads the last element of 'scores'
get_mse_loss_last_score(r, labs) ==
    LET rows == Unwrap(r)
        flat == [i \in 1..Len(rows) |->
                    IF rows[i].type = "dict"
                    THEN BareRow(rows[i].scores[Len(rows[i].scores)])
                    ELSE rows[i]]
    IN  IF Len(rows) # Len(labs) THEN Raise("AssertionError")
        ELSE IF Len(labs) = 0 THEN Raise("ZeroDivisionError")
        ELSE Return(Round2(NumDiv(LossLoop(flat, labs, Len(labs)), Len(labs))))

get_mse_loss(r, labs) ==
    LET rows == Unwrap(r) IN
    IF Len(rows) # Len(labs) THEN Raise("AssertionError")
    ELSE IF Len(labs) = 0 THEN Raise("ZeroDivisionError")
    ELSE Return(Round2(NumDiv(LossLoop(rows, labs, Len(labs)), Len(labs))))

\* ------------------------------------------------------- scorer inputs
ScoreValues == {Num(1), Num(3)}

SeqsUpTo(S, n) == UNION {[1..k -> S] : k \in 0..n}

\* a row as a prediction source returns it: bare, {'scores': [v]} or
\* {'scores': [v, w]} with a second score that differs from the first
Rows ==
    {BareRow(v) : v \in ScoreValues}
        \cup {ScoresRow(<<v>>) : v \in ScoreValues}
        \cup {ScoresRow(<<v, NumAdd(v, Num(1))>>) : v \in ScoreValues}

Results ==
    {PyList(s) : s \in SeqsUpTo(Rows, MaxLen)}
        \cup {PyPredictionsDict(s) : s \in SeqsUpTo(Rows, MaxLen)}

\* the call get_mse_loss(res, labels) on the inputs drawn by InitScorer
GetMseLoss ==
    /\ mse = NotCalled
    /\ mse' = get_mse_loss(res, labels)
    /\ UNCHANGED <<cloudVars, fileVars, accVars, res, labels, indexVars, bs2Vars, dataVars, bs1Vars, labelVars, pc>>

\* ------------------------------------------------ strings of the CSV file
DigitChars == <<"0", "1", "2", "3", "4", "5", "6", "7", "8", "9">>

\* str(i) for an int i >= 0
RECURSIVE Str(_)
Str(i) ==
    IF i < 10 THEN DigitChars[i + 1]
    ELSE Str(i \div 10) \o DigitChars[(i % 10) + 1]

\* float(s) for a one-digit rating field
Float(s) == Num(CHOOSE i \in 0..9 : DigitChars[i + 1] = s)

\* ------------------------------------------------------------- np.mean
RECURSIVE NumSum(_)
NumSum(xs) == IF xs = <<>> THEN Num(0) ELSE NumAdd(Head(xs), NumSum(Tail(xs)))

\* variant of np_mean that yields 0 for an empty list
np_mean_empty_zero(xs) == IF xs = <<>> THEN Num(0) ELSE NumDiv(NumSum(xs), Len(xs))

\* np.mean of a list of floats; nan (with a RuntimeWarning) for an empty list
np_mean(xs) == IF xs = <<>> THEN NaN ELSE NumDiv(NumSum(xs), Len(xs))

\* --------------------------------------- cu.csv_to_augmented_data_dict
EmptyDict == [k \in {} |-> <<>>]

\* append v to the bucket of key, creating the bucket when missing
DictAppend(d, key, v) ==
    IF key \in DOMAIN d THEN [d EXCEPT ![key] = Append(@, v)]
    ELSE d @@ (key :> <<v>>)

\* the single pass over the first k rows: [users, movies]
RECURSIVE AggregateLoop(_, _)
AggregateLoop(rows, k) ==
    IF k = 0 THEN [users |-> EmptyDict, movies |-> EmptyDict]
    ELSE LET prev == AggregateLoop(rows, k - 1)
             row == rows[k]
         IN  [users |-> DictAppend(prev.users, row.user, <<row.item, row.rating>>),
              movies |-> DictAppend(prev.movies, row.item, <<row.user, row.rating>>)]

\* variant of the aggregator that keeps one entry per (user, item, rating)
csv_to_augmented_data_dict_dedup(rows) ==
    LET firsts == SelectSeq([i \in 1..Len(rows) |-> [at |-> i, row |-> rows[i]]],
                            LAMBDA e : \A j \in 1..(e.at - 1) : rows[j] # e.row)
    IN  AggregateLoop([i \in 1..Len(firsts) |-> firsts[i].row], Len(firsts))

\* variant of the aggregator that overwrites a user's bucket instead of appending
csv_to_augmented_data_dict_overwrite(rows) ==
    [users |-> [u \in {rows[i].user : i \in 1..Len(rows)} |->
                   LET last == CHOOSE i \in 1..Len(rows) :
                                   /\ rows[i].user = u
                                   /\ \A j \in (i + 1)..Len(rows) : rows[j].user # u
                   IN  <<(<<rows[last].item, rows[last].rating>>)>>],
     movies |-> AggregateLoop(rows, Len(rows)).movies]

csv_to_augmented_data_dict(rows) == AggregateLoop(rows, Len(rows))

\* ------------------------------------------------------------ bs2_predictor
BoolInt(b) == IF b THEN Num(1) ELSE Num(0)

\* second components of a list of pairs: local_ratings of zip(*bucket)
Seconds(bucket) == [i \in 1..Len(bucket) |-> bucket[i][2]]
Firsts(bucket) == [i \in 1..Len(bucket) |-> bucket[i][1]]

\* variant of Bs2Row that averages local_movies instead of local_ratings
Bs2Row_mean_of_movies(row, user_dict, is_c, t) ==
    LET userID == Str(row.in0[1]) IN
    IF userID \notin DOMAIN user_dict THEN Raise("KeyError")
    ELSE IF user_dict[userID] = <<>> THEN Raise("ValueError")
    ELSE LET local_movies == Firsts(user_dict[userID])
             floats == [i \in 1..Len(local_movies) |-> Float(local_movies[i])]
             mean == np_mean(floats)
         IN  Return(IF is_c THEN BoolInt(NumGt(mean, Num(3))) ELSE mean)

\* variant of Bs2Row that predicts 0 for a user without a bucket
Bs2Row_guess_zero(row, user_dict, is_c, t) ==
    LET userID == Str(row.in0[1])
        bucket == IF userID \in DOMAIN user_dict THEN user_dict[userID] ELSE <<>>
        local_ratings == Seconds(bucket)
        floats == [i \in 1..Len(local_ratings) |-> Float(local_ratings[i])]
        mean == IF floats = <<>> THEN Num(0) ELSE np_mean(floats)
    IN  Return(IF is_c THEN BoolInt(NumGt(mean, Num(3))) ELSE mean)

\* the body of `for row in test_data`: the prediction appended for one row,
\* or the exception that leaves the function
Bs2Row(row, user_dict, is_c, t) ==
    LET userID == Str(row.in0[1]) IN
    IF userID \notin DOMAIN user_dict THEN Raise("KeyError")
    ELSE IF user_dict[userID] = <<>> THEN Raise("ValueError")
    ELSE LET local_ratings == Seconds(user_dict[userID])
             floats == [i \in 1..Len(local_ratings) |-> Float(local_ratings[i])]
             mean == np_mean(floats)
         IN  Return(IF is_c THEN BoolInt(NumGt(mean, Num(3))) ELSE mean)

\* variant of Bs2Loop that stops at the first failing row and returns the
\* predictions made before it
Bs2Loop_partial(rows, user_dict, is_c, t, k) ==
    LET ok(i) == Bs2Row(rows[i], user_dict, is_c, t).kind = "return"
        n == CHOOSE m \in 0..k : /\ \A i \in 1..m : ok(i)
                                 /\ m = k \/ ~ok(m + 1)
    IN  Return([i \in 1..n |-> Bs2Row(rows[i], user_dict, is_c, t).val])

\* the loop over the first k rows: the predictions so far, or the exception
RECURSIVE Bs2Loop(_, _, _, _, _)
Bs2Loop(rows, user_dict, is_c, t, k) ==
    IF k = 0 THEN Return(<<>>)
    ELSE LET prev == Bs2Loop(rows, user_dict, is_c, t, k - 1) IN
         IF prev.kind = "raise" THEN prev
         ELSE LET one == Bs2Row(rows[k], user_dict, is_c, t) IN
              IF one.kind = "raise" THEN one
              ELSE Return(Append(prev.val, one.val))

bs2_predictor(td, user_dict, is_c, t) ==
    Bs2Loop(td.instances, user_dict, is_c, t, Len(td.instances))

\* variant of Bs2UserDictAfter for a dict that builds a missing bucket on
\* lookup: the first user without a bucket gets an empty one
Bs2UserDictAfter_default_bucket(td, user_dict) ==
    LET ids == [i \in 1..Len(td.instances) |-> Str(td.instances[i].in0[1])]
        missing == {i \in 1..Len(ids) : ids[i] \notin DOMAIN user_dict}
    IN  IF missing = {} THEN user_dict
        ELSE LET first == CHOOSE i \in missing : \A j \in missing : i <= j
             IN  (ids[first] :> <<>>) @@ user_dict

\* the caller's user_dict after a call: the function only subscripts it
Bs2UserDictAfter(td, user_dict) == user_dict

\* the caller's test_data after a call: the function works on a deepcopy of
\* test_data['instances'] and only reads its rows
Bs2TestDataAfter(td) == td

\* ------------------------------------------------------ baseline 2 inputs
\* rows of the training file, the user, movie and rating fields as read:
\* users 1 and 2, movies 1 and 2, two ratings for each rated pair
TrainRows ==
    {[user |-> r[1], item |-> r[2], rating |-> r[3]] :
        r \in {<<"1", "1", "4">>, <<"1", "1", "5">>,
                <<"1", "2", "3">>, <<"1", "2", "4">>,
                <<"2", "1", "3">>, <<"2", "1", "4">>}}

\* instances as cu.data_list_to_inference_format emits them; user 3 has no
\* rating in any training file
Instances ==
    {[in0 |-> <<r[1]>>, in1 |-> <<r[2]>>] :
        r \in {<<1, 1>>, <<1, 2>>, <<2, 1>>, <<3, 1>>}}

TestInputs == {[instances |-> s] : s \in SeqsUpTo(Instances, MaxInstances)}

Thresholds == {Num(3), Num(4)}

\* the cell `to_users_dict, to_movies_dict = cu.csv_to_augmented_data_dict(...)`
CsvToAugmentedDataDict ==
    /\ pc = "start"
    /\ LET idx == csv_to_augmented_data_dict(train_file) IN
           /\ to_users_dict' = idx.users
           /\ to_movies_dict' = idx.movies
    /\ pc' = "indexed"
    /\ UNCHANGED <<cloudVars, fileVars, accVars, train_file, scorerVars, bs2Vars, dataVars, bs1Vars, labelVars>>

\* a call bs2_predictor(td, to_users_dict, is_classification=c, thres=t)
Bs2Predictor ==
    /\ pc = "indexed"
    /\ \E td \in TestInputs, c \in BOOLEAN, t \in Thresholds :
           /\ test_data' = td
           /\ is_classification' = c
           /\ thres' = t
           /\ bs2' = bs2_predictor(td, to_users_dict, c, t)
    /\ pc' = "predicted"
    /\ UNCHANGED <<cloudVars, fileVars, accVars, indexVars, scorerVars, dataVars, bs1Vars, labelVars>>

\* --------------------------------------------------- the Baseline 2 cell
\* a small training file, instances and labels for runs of the cell; user 3
\* has no rating, and the labels need not be as many as the instances
BatchTrainRows ==
    {[user |-> r[1], item |-> r[2], rating |-> r[3]] :
        r \in {<<"1", "1", "4">>, <<"2", "1", "3">>}}

BatchInstances == {[in0 |-> <<u>>, in1 |-> <<1>>] : u \in {1, 2, 3}}

BatchInputs == {[instances |-> s] : s \in SeqsUpTo(BatchInstances, MaxInstances)}

BatchLabels == SeqsUpTo({Num(4)}, MaxInstances)

\* thres=3, the default of bs2_predictor's parameter
DefaultThres == Num(3)

\* the cell
\*   bs2_prediction = bs2_predictor(valid_r_data, to_users_dict, is_classification=c)
\*   print(... get_mse_loss(bs2_prediction, valid_r_label))
\* an exception out of bs2_predictor ends the cell before get_mse_loss is called
Baseline2(c) ==
    /\ pc \in {"indexed", "scored"}
    /\ LET out == bs2_predictor(test_data, to_users_dict, c, DefaultThres)
           bs2_prediction == PyList([i \in 1..Len(out.val) |-> BareRow(out.val[i])])
       IN  /\ bs2' = out
           /\ res' = IF out.kind = "return" THEN bs2_prediction ELSE res
           /\ mse' = IF out.kind = "return" THEN get_mse_loss(bs2_prediction, labels)
                                            ELSE mse
    /\ is_classification' = c
    /\ thres' = DefaultThres
    /\ to_users_dict' = Bs2UserDictAfter(test_data, to_users_dict)
    /\ test_data' = Bs2TestDataAfter(test_data)
    /\ pc' = "scored"
    /\ UNCHANGED <<cloudVars, fileVars, accVars, train_file, to_movies_dict, labels, dataVars,
                   bs1Vars, labelVars>>

\* ------------------------------------------------- data lists and labels
\* rows of a data list as cu.load_csv_data builds them: the user in 'in0',
\* the movie in 'in1', the rating in 'label'; one row for each rating 1..5
DataRows ==
    {[in0 |-> <<1 + (g % 2)>>, in1 |-> <<1 + (g \div 3)>>, label |-> Num(g)] :
        g \in 1..5}

\* [row['label'] for row in data_list]
LabelsOf(data_list) == [i \in 1..Len(data_list) |-> data_list[i].label]

\* n*[x]
Repeat(n, x) == [i \in 1..n |-> x]

\* cu.get_binarized_label(data_list, thres): label 1 if rating > thres else 0
get_binarized_label(data_list, t) ==
    [i \in 1..Len(data_list) |->
        [data_list[i] EXCEPT !.label = BoolInt(NumGt(@, t))]]

\* cu.data_list_to_inference_format(data_list, label_thres, binarize):
\* the feature pairs under 'instances' and the parallel list of labels
data_list_to_inference_format(data_list, label_thres, binarize) ==
    [data |-> [instances |-> [i \in 1..Len(data_list) |->
                                 [in0 |-> data_list[i].in0, in1 |-> data_list[i].in1]]],
     label |-> [i \in 1..Len(data_list) |->
                   IF binarize THEN BoolInt(NumGt(data_list[i].label, label_thres))
                   ELSE data_list[i].label]]

\* ------------------------------------------- cu.write_data_list_to_jsonl
\* a file of the working directory: absent, or its lines
NoFile == [exists |-> FALSE, lines |-> <<>>]
File(ls) == [exists |-> TRUE, lines |-> ls]

\* the JSON text of a whole number
JsonNumber(x) == Str(x.n)

\* one example as a JSON object, token by token
JsonLine(row) ==
    << "{", "\"in0\"", ":", "[", Str(row.in0[1]), "]", ",",
       "\"in1\"", ":", "[", Str(row.in1[1]), "]", ",",
       "\"label\"", ":", JsonNumber(row.label), "}" >>

\* variant of the serializer that writes each distinct example once
write_data_list_to_jsonl_dedup(data_list) ==
    LET firsts == SelectSeq([i \in 1..Len(data_list) |-> [at |-> i, row |-> data_list[i]]],
                            LAMBDA e : \A j \in 1..(e.at - 1) : data_list[j] # e.row)
    IN  File([i \in 1..Len(firsts) |-> JsonLine(firsts[i].row)])

\* cu.write_data_list_to_jsonl(data_list, fname): one object per line, in
\* input order
write_data_list_to_jsonl(data_list) ==
    File([i \in 1..Len(data_list) |-> JsonLine(data_list[i])])

\* the cell that saves the regression data and formats the validation data:
\* cu.write_data_list_to_jsonl(train_data_list, 'train_r.jsonl'), the same
\* for validation, then valid_r_data, valid_r_label =
\* cu.data_list_to_inference_format(..., binarize=False)
InferenceFormatR ==
    /\ pc = "start"
    /\ train_r_jsonl' = write_data_list_to_jsonl(train_data_list)
    /\ validation_r_jsonl' = write_data_list_to_jsonl(validation_data_list)
    /\ LET out == data_list_to_inference_format(validation_data_list, Num(3), FALSE) IN
           /\ valid_r_data' = out.data
           /\ valid_r_label' = out.label
    /\ pc' = "formatted_r"
    /\ UNCHANGED <<cloudVars, train_c_jsonl, validation_c_jsonl, accVars, scorerVars, indexVars,
                   bs2Vars, dataVars, labelVars,
                   bs1_prediction, bs1_predictions, bs1_loss>>

\* ------------------------------------------------------------- baseline 1
\* variant of Bs1Prediction that leaves the first row out of the mean
Bs1Prediction_skip_first(data_list) ==
    Round2(np_mean(LabelsOf(IF data_list = <<>> THEN <<>> ELSE Tail(data_list))))

\* bs1_prediction = round(np.mean(train_r_label), 2)
Bs1Prediction(data_list) == Round2(np_mean(LabelsOf(data_list)))

\* the Baseline 1 cell: the global rating average and its validation loss
Baseline1 ==
    /\ pc = "formatted_r"
    /\ LET p == Bs1Prediction(train_data_list)
           ps == Repeat(Len(valid_r_label), p)
       IN  /\ bs1_prediction' = p
           /\ bs1_predictions' = ps
           /\ bs1_loss' = get_mse_loss(PyList([i \in 1..Len(ps) |-> BareRow(ps[i])]),
                                       valid_r_label)
    /\ pc' = "baseline1"
    /\ UNCHANGED <<cloudVars, fileVars, accVars, scorerVars, indexVars, bs2Vars, dataVars, labelVars,
                   valid_r_data, valid_r_label>>

\* ------------------------------------------------------------ binarization
\* variant of InferenceLabelThres: the evaluation labels cut at 4
InferenceLabelThres_four == Num(4)

\* the thresholds written at the three call sites
TrainLabelThres == Num(3)
ValidLabelThres == Num(3)
InferenceLabelThres == Num(3)

\* the cell that binarizes and saves the classification data:
\* train_c, valid_c = cu.get_binarized_label(..., 3.0), then
\* cu.write_data_list_to_jsonl(train_c, 'train_c.jsonl'), the same for valid_c
GetBinarizedLabel ==
    /\ pc \in {"formatted_r", "predicted_r"}
    /\ LET tc == get_binarized_label(train_data_list, TrainLabelThres)
           vc == get_binarized_label(validation_data_list, ValidLabelThres)
       IN  /\ train_c' = tc
           /\ valid_c' = vc
           /\ train_c_jsonl' = write_data_list_to_jsonl(tc)
           /\ validation_c_jsonl' = write_data_list_to_jsonl(vc)
    /\ pc' = "binarized"
    /\ UNCHANGED <<cloudVars, train_r_jsonl, validation_r_jsonl, accVars, scorerVars, indexVars, bs2Vars, dataVars, bs1Vars,
                   valid_c_data, valid_c_label>>

\* valid_c_data, valid_c_label =
\*     cu.data_list_to_inference_format(..., label_thres=3, binarize=True)
InferenceFormatC ==
    /\ pc = "binarized"
    /\ LET out == data_list_to_inference_format(validation_data_list,
                                                InferenceLabelThres, TRUE) IN
           /\ valid_c_data' = out.data
           /\ valid_c_label' = out.label
    /\ pc' = "formatted_c"
    /\ UNCHANGED <<cloudVars, fileVars, accVars, scorerVars, indexVars, bs2Vars, dataVars, bs1Vars,
                   train_c, valid_c>>

\* ------------------------------------------------------ class accuracy
\* variant of AccuracyThres: the scores cut at 0.4
AccuracyThres_low == Rat(2, 5)

\* the threshold written at the call site of cu.get_class_accuracy
AccuracyThres == Rat(1, 2)

\* the score a prediction row carries
RowScore(row) == IF row.type = "dict" THEN row.scores[1] ELSE row.v

\* how many of the first k predicted classes equal the label
RECURSIVE CorrectLoop(_, _, _, _)
CorrectLoop(rows, labs, t, k) ==
    IF k = 0 THEN 0
    ELSE CorrectLoop(rows, labs, t, k - 1)
             + (IF BoolInt(NumGt(RowScore(rows[k]), t)) = labs[k] THEN 1 ELSE 0)

\* cu.get_class_accuracy(res, labels, thres): the fraction of predictions
\* whose class (1 if score > thres else 0) equals the label
get_class_accuracy(r, labs, t) ==
    LET rows == Unwrap(r) IN
    IF Len(rows) # Len(labs) THEN Raise("LengthMismatchError")
    ELSE IF Len(labs) = 0 THEN Raise("ZeroDivisionError")
    ELSE Return(Rat(CorrectLoop(rows, labs, t, Len(labs)), Len(labs)))

\* scores around the threshold, in both row shapes
AccuracyScores == {Rat(2, 5), Rat(1, 2), Rat(3, 5)}

AccuracyRows ==
    {BareRow(v) : v \in AccuracyScores} \cup {ScoresRow(<<v>>) : v \in AccuracyScores}

AccuracyResults ==
    {PyList(s) : s \in SeqsUpTo(AccuracyRows, MaxLen)}
        \cup {PyPredictionsDict(s) : s \in SeqsUpTo(AccuracyRows, MaxLen)}

\* the cell cu.get_class_accuracy(predictions, valid_c_label, 0.5)
GetClassAccuracy ==
    /\ accuracy = NotCalled
    /\ accuracy' = get_class_accuracy(predictions, valid_c_label, AccuracyThres)
    /\ UNCHANGED <<cloudVars, fileVars, predictions, scorerVars, indexVars, bs2Vars, dataVars, bs1Vars,
                   labelVars, pc>>

\* ------------------------------------------- upload, fit, deploy, predict
\* for data_name in ['train', 'validation']
DataNames == <<"train", "validation">>

\* fname = '{}_r.jsonl'.format(data_name), '{}_c.jsonl'.format(data_name)
FileName(task, data_name) ==
    CASE task = "rating" /\ data_name = "train" -> "train_r.jsonl"
      [] task = "rating" /\ data_name = "validation" -> "validation_r.jsonl"
      [] task = "recommendation" /\ data_name = "train" -> "train_c.jsonl"
      [] task = "recommendation" /\ data_name = "validation" -> "validation_c.jsonl"

\* os.path.join(pre_key, fname), component by component
Key(task, data_name) == <<task, data_name, FileName(task, data_name)>>

\* the parts of an external service: each call returns or fails
ModelNames == {"ratingModel", "recommendationModel"}
Unbound == "unbound"
NotFitted == [fitted |-> FALSE, channels |-> EmptyDict]
Fitted(paths) == [fitted |-> TRUE, channels |-> paths]

\* effect of the first n rounds of an upload loop on (s3, input_paths)
RECURSIVE UploadLoop(_, _, _, _)
UploadLoop(task, keys, paths, n) ==
    IF n = 0 THEN [s3 |-> keys, input_paths |-> paths]
    ELSE LET prev == UploadLoop(task, keys, paths, n - 1)
             data_name == DataNames[n]
         IN  [s3 |-> prev.s3 \cup {Key(task, data_name)},
              input_paths |-> (data_name :> Key(task, data_name)) @@ prev.input_paths]

\* variant of the cell order in which the clean-up cell comes before the
\* recommendation model's predict cell
RunsAfter_cleanup_before_predict ==
    [upload_r |-> "formatted_r", fit_r |-> "uploaded_r", deploy_r |-> "fitted_r",
     predict_r |-> "deployed_r", binarize |-> "predicted_r", upload_c |-> "binarized",
     fit_c |-> "uploaded_c", deploy_c |-> "fitted_c", cleanup |-> "deployed_c",
     predict_c |-> "done"]

\* the order of the notebook's cells: for each cell, the stage reached by the
\* cell above it
RunsAfter ==
    [upload_r |-> "formatted_r", fit_r |-> "uploaded_r", deploy_r |-> "fitted_r",
     predict_r |-> "deployed_r", binarize |-> "predicted_r", upload_c |-> "binarized",
     fit_c |-> "uploaded_c", deploy_c |-> "fitted_c", predict_c |-> "deployed_c",
     cleanup |-> "predicted_c"]

\* an upload loop: s3_client.upload_file raises for a missing local file and
\* may fail in the service; the rounds before the failure have taken effect
Upload(task, files, paths, before, after) ==
    /\ pc = before
    /\ \E n \in 0..Len(DataNames) :
           /\ \A k \in 1..n : files[k].exists
           /\ LET out == UploadLoop(task, s3, paths, n) IN
                  /\ s3' = out.s3
                  /\ input_paths' = out.input_paths
           /\ pc' = IF n = Len(DataNames) THEN after ELSE "aborted"
    /\ UNCHANGED <<regressor, classifier, endpoints, predictor, predictor_2, prediction,
                   requests, fileVars, accVars, scorerVars, indexVars, bs2Vars, dataVars,
                   bs1Vars, labelVars>>

\* the rating upload cell, which starts from input_paths = {}
UploadRating ==
    /\ Upload("rating", <<train_r_jsonl, validation_r_jsonl>>, EmptyDict,
              RunsAfter.upload_r, "uploaded_r")

\* the recommendation upload cell, which overwrites input_paths
UploadRecommendation ==
    /\ Upload("recommendation", <<train_c_jsonl, validation_c_jsonl>>, input_paths,
              RunsAfter.upload_c, "uploaded_c")

\* estimator.fit(input_paths): the training job needs both channels in S3
FitOutcomes(paths) ==
    IF /\ DOMAIN paths = {DataNames[k] : k \in 1..Len(DataNames)}
       /\ \A d \in DOMAIN paths : paths[d] \in s3
    THEN {Fitted(paths), NotFitted}
    ELSE {NotFitted}

\* regressor.fit(input_paths)
FitRating ==
    /\ pc = RunsAfter.fit_r
    /\ \E out \in FitOutcomes(input_paths) :
           /\ regressor' = out
           /\ pc' = IF out.fitted THEN "fitted_r" ELSE "aborted"
    /\ UNCHANGED <<s3, input_paths, classifier, endpoints, predictor, predictor_2,
                   prediction, requests, fileVars, accVars, scorerVars, indexVars,
                   bs2Vars, dataVars, bs1Vars, labelVars>>

\* classifier.fit(input_paths)
FitRecommendation ==
    /\ pc = RunsAfter.fit_c
    /\ \E out \in FitOutcomes(input_paths) :
           /\ classifier' = out
           /\ pc' = IF out.fitted THEN "fitted_c" ELSE "aborted"
    /\ UNCHANGED <<s3, input_paths, regressor, endpoints, predictor, predictor_2,
                   prediction, requests, fileVars, accVars, scorerVars, indexVars,
                   bs2Vars, dataVars, bs1Vars, labelVars>>

\* estimator.create_model(name=...) and model.deploy(...): an endpoint in
\* service, or a failure that leaves the handle unassigned
DeployOutcomes(estimator) == IF estimator.fitted THEN {TRUE, FALSE} ELSE {FALSE}

\* regression_model = regressor.create_model(...); predictor = regression_model.deploy(...)
DeployRating ==
    /\ pc = RunsAfter.deploy_r
    /\ \E ok \in DeployOutcomes(regressor) :
           /\ endpoints' = IF ok THEN [endpoints EXCEPT !["ratingModel"] = "InService"]
                                 ELSE endpoints
           /\ predictor' = IF ok THEN "ratingModel" ELSE predictor
           /\ pc' = IF ok THEN "deployed_r" ELSE "aborted"
    /\ UNCHANGED <<s3, input_paths, regressor, classifier, predictor_2, prediction,
                   requests, fileVars, accVars, scorerVars, indexVars, bs2Vars, dataVars,
                   bs1Vars, labelVars>>

\* classification_model = classifier.create_model(...); predictor_2 = ....deploy(...)
DeployRecommendation ==
    /\ pc = RunsAfter.deploy_c
    /\ \E ok \in DeployOutcomes(classifier) :
           /\ endpoints' = IF ok THEN [endpoints EXCEPT !["recommendationModel"] = "InService"]
                                 ELSE endpoints
           /\ predictor_2' = IF ok THEN "recommendationModel" ELSE predictor_2
           /\ pc' = IF ok THEN "deployed_c" ELSE "aborted"
    /\ UNCHANGED <<s3, input_paths, regressor, classifier, predictor, prediction,
                   requests, fileVars, accVars, scorerVars, indexVars, bs2Vars, dataVars,
                   bs1Vars, labelVars>>

\* what an endpoint in service may answer for n instances: a score object
\* per instance, or a failure
Answers(scores, n) ==
    {Return(PyPredictionsDict(a)) : a \in [1..n -> {ScoresRow(<<x>>) : x \in scores}]}
        \cup {Raise("ClientError")}

\* handle.predict(data): NameError for an unassigned handle; otherwise the
\* service receives the request, and an endpoint not in service rejects it
Predict(handle, data, scores) ==
    IF handle = Unbound THEN {[answer |-> Raise("NameError"), requests |-> requests]}
    ELSE LET received == Append(requests, [endpoint |-> handle, status |-> endpoints[handle]])
         IN  {[answer |-> a, requests |-> received] :
                  a \in IF endpoints[handle] = "InService"
                        THEN Answers(scores, Len(data.instances))
                        ELSE {Raise("ClientError")}}

\* prediction = predictor.predict(valid_r_data)
\* print(... % get_mse_loss(prediction, valid_r_label))
PredictRating ==
    /\ pc = RunsAfter.predict_r
    /\ \E out \in Predict(predictor, valid_r_data, {Num(3), Num(4)}) :
           /\ requests' = out.requests
           /\ prediction' = IF out.answer.kind = "return" THEN out.answer ELSE prediction
           /\ mse' = IF out.answer.kind = "return"
                     THEN get_mse_loss(out.answer.val, valid_r_label) ELSE mse
           /\ pc' = IF out.answer.kind = "return" /\ mse'.kind = "return"
                    THEN "predicted_r" ELSE "aborted"
    /\ UNCHANGED <<s3, input_paths, regressor, classifier, endpoints, predictor,
                   predictor_2, fileVars, accVars, res, labels, indexVars, bs2Vars,
                   dataVars, bs1Vars, labelVars>>

\* valid_c_data, valid_c_label = cu.data_list_to_inference_format(...)
\* predictions = predictor_2.predict(valid_c_data)
PredictRecommendation ==
    /\ pc = RunsAfter.predict_c
    /\ LET fmt == data_list_to_inference_format(validation_data_list,
                                                InferenceLabelThres, TRUE) IN
           /\ valid_c_data' = fmt.data
           /\ valid_c_label' = fmt.label
           /\ \E out \in Predict(predictor_2, fmt.data, {Rat(2, 5), Rat(3, 5)}) :
                  /\ requests' = out.requests
                  /\ predictions' = IF out.answer.kind = "return" THEN out.answer.val
                                                                  ELSE predictions
                  /\ pc' = IF out.answer.kind = "return" THEN "predicted_c" ELSE "aborted"
    /\ UNCHANGED <<s3, input_paths, regressor, classifier, endpoints, predictor,
                   predictor_2, prediction, fileVars, accuracy, scorerVars, indexVars,
                   bs2Vars, dataVars, bs1Vars, train_c, valid_c>>

\* effect of the first n calls of the clean-up cell on the endpoints
RECURSIVE DeleteLoop(_, _, _)
DeleteLoop(handles, status, n) ==
    IF n = 0 THEN status
    ELSE [DeleteLoop(handles, status, n - 1) EXCEPT ![handles[n]] = "deleted"]

\* sess.delete_endpoint(predictor.endpoint); sess.delete_endpoint(predictor_2.endpoint)
\* a call raises for an unassigned handle or an endpoint that is not in
\* service, and may fail in the service; the calls before it have taken effect
CleanUp ==
    /\ pc = RunsAfter.cleanup
    /\ LET handles == <<predictor, predictor_2>> IN
       \E n \in 0..Len(handles) :
           /\ \A k \in 1..n : /\ handles[k] # Unbound
                               /\ DeleteLoop(handles, endpoints, k - 1)[handles[k]] = "InService"
           /\ endpoints' = DeleteLoop(handles, endpoints, n)
           /\ pc' = IF n = Len(handles) THEN "done" ELSE "aborted"
    /\ UNCHANGED <<s3, input_paths, regressor, classifier, predictor, predictor_2,
                   prediction, requests, fileVars, accVars, scorerVars, indexVars,
                   bs2Vars, dataVars, bs1Vars, labelVars>>

\* ------------------------------------------------------- specifications
IdleCloud ==
    /\ s3 = {}
    /\ input_paths = EmptyDict
    /\ regressor = NotFitted
    /\ classifier = NotFitted
    /\ endpoints = [m \in ModelNames |-> "none"]
    /\ predictor = Unbound
    /\ predictor_2 = Unbound
    /\ prediction = NotCalled
    /\ requests = <<>>

IdleFiles ==
    /\ train_r_jsonl = NoFile
    /\ validation_r_jsonl = NoFile
    /\ train_c_jsonl = NoFile
    /\ validation_c_jsonl = NoFile

IdleAcc ==
    /\ predictions = PyList(<<>>)
    /\ accuracy = NotCalled

IdleScorer ==
    /\ res = PyList(<<>>)
    /\ labels = <<>>
    /\ mse = NotCalled

IdleIndex ==
    /\ train_file = <<>>
    /\ to_users_dict = EmptyDict
    /\ to_movies_dict = EmptyDict

IdleBs2 ==
    /\ test_data = [instances |-> <<>>]
    /\ is_classification = FALSE
    /\ thres = Num(3)
    /\ bs2 = NotCalled

IdleData ==
    /\ train_data_list = <<>>
    /\ validation_data_list = <<>>

IdleBs1 ==
    /\ valid_r_data = [instances |-> <<>>]
    /\ valid_r_label = <<>>
    /\ bs1_prediction = NotCalled
    /\ bs1_predictions = <<>>
    /\ bs1_loss = NotCalled

IdleLabel ==
    /\ train_c = <<>>
    /\ valid_c = <<>>
    /\ valid_c_data = [instances |-> <<>>]
    /\ valid_c_label = <<>>

InitData ==
    /\ train_data_list \in SeqsUpTo(DataRows, MaxTrain)
    /\ validation_data_list \in SeqsUpTo(DataRows, MaxValid)

InitScorer ==
    /\ res \in Results
    /\ labels \in SeqsUpTo(ScoreValues, MaxLen)
    /\ mse = NotCalled
    /\ IdleIndex
    /\ IdleBs2
    /\ IdleData
    /\ IdleBs1
    /\ IdleFiles
    /\ IdleCloud
    /\ IdleLabel
    /\ IdleAcc
    /\ pc = "start"

NextScorer == GetMseLoss

SpecScorer == InitScorer /\ [][NextScorer]_vars

InitBaseline2 ==
    /\ train_file \in SeqsUpTo(TrainRows, MaxTrain)
    /\ to_users_dict = EmptyDict
    /\ to_movies_dict = EmptyDict
    /\ IdleBs2
    /\ IdleScorer
    /\ IdleData
    /\ IdleBs1
    /\ IdleFiles
    /\ IdleCloud
    /\ IdleLabel
    /\ IdleAcc
    /\ pc = "start"

NextBaseline2 ==
    \/ CsvToAugmentedDataDict
    \/ Bs2Predictor

SpecBaseline2 == InitBaseline2 /\ [][NextBaseline2]_vars

InitBatch ==
    /\ train_file \in SeqsUpTo(BatchTrainRows, MaxTrain)
    /\ to_users_dict = EmptyDict
    /\ to_movies_dict = EmptyDict
    /\ test_data \in BatchInputs
    /\ labels \in BatchLabels
    /\ is_classification = FALSE
    /\ thres = DefaultThres
    /\ bs2 = NotCalled
    /\ res = PyList(<<>>)
    /\ mse = NotCalled
    /\ IdleData
    /\ IdleBs1
    /\ IdleFiles
    /\ IdleCloud
    /\ IdleLabel
    /\ IdleAcc
    /\ pc = "start"

NextBatch ==
    \/ CsvToAugmentedDataDict
    \/ \E c \in BOOLEAN : Baseline2(c)

SpecBatch == InitBatch /\ [][NextBatch]_vars

\* data lists for runs of the whole notebook: a low and a high rating
NotebookRows == {r \in DataRows : r.label \in {Num(2), Num(5)}}

InitNotebook ==
    /\ train_data_list \in SeqsUpTo(NotebookRows, MaxTrain)
    /\ validation_data_list \in SeqsUpTo(NotebookRows, MaxValid)
    /\ IdleBs1
    /\ IdleFiles
    /\ IdleCloud
    /\ IdleLabel
    /\ IdleAcc
    /\ IdleScorer
    /\ IdleIndex
    /\ IdleBs2
    /\ pc = "start"

\* the cells from top to bottom; the cells that only compute and print a
\* figure (baselines, class balance, accuracy) are left out
NextNotebook ==
    \/ InferenceFormatR
    \/ UploadRating
    \/ FitRating
    \/ DeployRating
    \/ PredictRating
    \/ (pc = RunsAfter.binarize /\ GetBinarizedLabel)
    \/ UploadRecommendation
    \/ FitRecommendation
    \/ DeployRecommendation
    \/ PredictRecommendation
    \/ CleanUp

SpecNotebook == InitNotebook /\ [][NextNotebook]_vars

InitBaseline1 ==
    /\ InitData
    /\ IdleBs1
    /\ IdleFiles
    /\ IdleCloud
    /\ IdleLabel
    /\ IdleAcc
    /\ IdleScorer
    /\ IdleIndex
    /\ IdleBs2
    /\ pc = "start"

NextBaseline1 ==
    \/ InferenceFormatR
    \/ Baseline1

SpecBaseline1 == InitBaseline1 /\ [][NextBaseline1]_vars

InitLabel ==
    /\ InitData
    /\ IdleBs1
    /\ IdleFiles
    /\ IdleCloud
    /\ IdleLabel
    /\ IdleAcc
    /\ IdleScorer
    /\ IdleIndex
    /\ IdleBs2
    /\ pc = "start"

NextLabel ==
    \/ InferenceFormatR
    \/ GetBinarizedLabel
    \/ InferenceFormatC

SpecLabel == InitLabel /\ [][NextLabel]_vars

InitAccuracy ==
    /\ predictions \in AccuracyResults
    /\ accuracy = NotCalled
    /\ valid_c_label \in SeqsUpTo({Num(0), Num(1)}, MaxLen)
    /\ train_c = <<>>
    /\ valid_c = <<>>
    /\ valid_c_data = [instances |-> <<>>]
    /\ IdleScorer
    /\ IdleIndex
    /\ IdleBs2
    /\ IdleData
    /\ IdleBs1
    /\ IdleFiles
    /\ IdleCloud
    /\ pc = "start"

NextAccuracy == GetClassAccuracy

SpecAccuracy == InitAccuracy /\ [][NextAccuracy]_vars

\* ------------------------------------------------- properties of the scorer
\* the predicted value a row carries, and the labels, as integers
RowValue(row) == IF row.type = "dict" THEN row.scores[1].n ELSE row.v.n

RECURSIVE SumSqErr(_, _)
SumSqErr(rows, labs) ==
    IF rows = <<>> \/ labs = <<>> THEN 0
    ELSE (RowValue(Head(rows)) - Head(labs).n) * (RowValue(Head(rows)) - Head(labs).n)
             + SumSqErr(Tail(rows), Tail(labs))

MseCalled == mse # NotCalled
MseRows == Unwrap(res)
MseEqualNonEmpty == Len(MseRows) = Len(labels) /\ Len(labels) > 0

\* the returned value in hundredths, when it is a whole number of hundredths
Hundredths(x) == x.n * (100 \div x.d)

\* C1 as stated: for non-empty inputs of equal length n, get_mse_loss returns
\* exactly sum((p_i - l_i)^2) / n.
C1_ExactMean ==
    (MseCalled /\ MseEqualNonEmpty) =>
        /\ mse.kind = "return"
        /\ mse.val.d > 0
        /\ mse.val.n * Len(labels) = SumSqErr(MseRows, labels) * mse.val.d

\* C1 amended: for non-empty inputs of equal length n, get_mse_loss returns
\* sum((p_i - l_i)^2) / n rounded to two decimal places (a whole number of
\* hundredths at most half a hundredth away from the exact quotient); it is 0
\* when the predictions equal the labels and 4 for predictions [1], labels [3].
C1_RoundedMean ==
    (MseCalled /\ MseEqualNonEmpty) =>
        /\ mse.kind = "return"
        /\ mse.val.d > 0
        /\ 100 % mse.val.d = 0
        /\ 2 * Abs(100 * SumSqErr(MseRows, labels)
                     - Hundredths(mse.val) * Len(labels)) <= Len(labels)
        /\ (\A i \in 1..Len(labels) : RowValue(MseRows[i]) = labels[i].n)
               => mse.val = Num(0)
        /\ (MseRows = <<BareRow(Num(1))>> /\ labels = <<Num(3)>>)
               => mse.val = Num(4)

\* three predictions, squared errors summing to 4: 4/3 is returned as 1.33
C1_Witness ==
    /\ MseCalled
    /\ Len(labels) = 3
    /\ Len(MseRows) = 3
    /\ SumSqErr(MseRows, labels) = 4
    /\ mse = Return(Rat(133, 100))

\* C2: get_mse_loss fails with the length-mismatch assertion for every pair
\* of input lengths m # n (also when one of them is 0) and returns no number.
C2_LengthMismatchRaises ==
    (MseCalled /\ Len(MseRows) # Len(labels)) =>
        mse = Raise("AssertionError")

C2_Witness ==
    /\ mse = Raise("AssertionError")
    /\ Len(MseRows) = 0
    /\ Len(labels) = 2

\* the same predictions given as bare numbers in a plain list
AsBareList(r) ==
    PyList([i \in 1..Len(Unwrap(r)) |-> BareRow(Num(RowValue(Unwrap(r)[i])))])

\* C3: the result for predictions given as score objects (first element of
\* 'scores'), mixed with bare numbers or wrapped under 'predictions', equals
\* the result for the same values given as bare numbers.
C3_ShapesNormalized ==
    MseCalled => mse = get_mse_loss(AsBareList(res), labels)

C3_Witness ==
    /\ mse.kind = "return"
    /\ res.type = "dict"
    /\ \E i, j \in 1..Len(MseRows) :
           /\ MseRows[i].type = "num"
           /\ MseRows[j].type = "dict"
           /\ Len(MseRows[j].scores) = 2
           /\ RowValue(MseRows[j]) # labels[j].n

\* ------------------------------------------- properties of the user mean
Bs2Called == pc = "predicted"
Bs2Rows == test_data.instances
UserKey(row) == Str(row.in0[1])
KnownUser(row) == UserKey(row) \in DOMAIN to_users_dict

\* the ratings of a bucket as integers, and their sum
RECURSIVE RatingSum(_)
RatingSum(bucket) ==
    IF bucket = <<>> THEN 0
    ELSE (CHOOSE i \in 0..9 : DigitChars[i + 1] = Head(bucket)[2])
             + RatingSum(Tail(bucket))

\* x is the arithmetic mean of the ratings in bucket
IsMeanOf(x, bucket) ==
    /\ Len(bucket) > 0
    /\ x.d > 0
    /\ x.n * Len(bucket) = RatingSum(bucket) * x.d

ExampleFile ==
    << [user |-> "1", item |-> "1", rating |-> "5"],
       [user |-> "1", item |-> "2", rating |-> "3"],
       [user |-> "2", item |-> "1", rating |-> "4"] >>

\* C4: for instances of users that have a bucket, bs2_predictor (regression
\* mode) returns for each instance the arithmetic mean of exactly the ratings
\* in that user's bucket, whatever the item and the other users' ratings; on
\* the file [(1,1,5),(1,2,3),(2,1,4)] that is 4 for user 1 and 4 for user 2.
C4_UserMean ==
    (Bs2Called /\ ~is_classification /\ \A i \in 1..Len(Bs2Rows) : KnownUser(Bs2Rows[i])) =>
        /\ bs2.kind = "return"
        /\ Len(bs2.val) = Len(Bs2Rows)
        /\ \A i \in 1..Len(Bs2Rows) :
               IsMeanOf(bs2.val[i], to_users_dict[UserKey(Bs2Rows[i])])
        /\ train_file = ExampleFile =>
               \A i \in 1..Len(Bs2Rows) : bs2.val[i] = Num(4)

\* user 1 asked about two movies and user 1's mean is not user 2's
C4_Witness ==
    /\ Bs2Called
    /\ ~is_classification
    /\ Len(Bs2Rows) = 2
    /\ Bs2Rows[1].in0 = <<1>> /\ Bs2Rows[2].in0 = <<1>>
    /\ Bs2Rows[1].in1 # Bs2Rows[2].in1
    /\ DOMAIN to_users_dict = {"1", "2"}
    /\ Len(to_users_dict["1"]) = 2
    /\ bs2 = Return(<<Rat(7, 2), Rat(7, 2)>>)
    /\ ~IsMeanOf(Rat(7, 2), to_users_dict["2"])

\* C5: for a user with no bucket bs2_predictor fails with the lookup error
\* (KeyError) and returns no guessed value.
C5_UnknownUserRaises ==
    (Bs2Called /\ \E i \in 1..Len(Bs2Rows) : ~KnownUser(Bs2Rows[i])) =>
        bs2 = Raise("KeyError")

C5_Witness ==
    /\ Bs2Called
    /\ Len(Bs2Rows) = 1
    /\ Bs2Rows[1].in0 = <<3>>
    /\ DOMAIN to_users_dict = {"1", "2"}
    /\ bs2 = Raise("KeyError")

\* C6: in classification mode the class returned for a known user is 1 if
\* the user's mean rating is strictly greater than the threshold passed as
\* thres and 0 otherwise.
C6_ThresholdIsParameter ==
    (Bs2Called /\ is_classification /\ bs2.kind = "return") =>
        \A i \in 1..Len(Bs2Rows) :
            LET bucket == to_users_dict[UserKey(Bs2Rows[i])] IN
            bs2.val[i] =
                IF RatingSum(bucket) * thres.d > thres.n * Len(bucket)
                THEN Num(1) ELSE Num(0)

\* ------------------------------------------- properties of the aggregator
Indexed == pc # "start"

InBucket(d, key, pair) ==
    /\ key \in DOMAIN d
    /\ \E j \in 1..Len(d[key]) : d[key][j] = pair

\* C10: after the aggregator has run on a non-empty file, every record's
\* (item, rating) is in its user's bucket and its (user, rating) is in its
\* item's bucket.
C10_NoRecordLost ==
    (Indexed /\ train_file # <<>>) =>
        \A i \in 1..Len(train_file) :
            LET r == train_file[i] IN
            /\ InBucket(to_users_dict, r.user, <<r.item, r.rating>>)
            /\ InBucket(to_movies_dict, r.item, <<r.user, r.rating>>)

\* three records, two of them of the same user
C10_Witness ==
    /\ Indexed
    /\ Len(train_file) = 3
    /\ train_file[1].user = train_file[3].user
    /\ train_file[1].item # train_file[3].item
    /\ Len(to_users_dict[train_file[1].user]) >= 2

\* ------------------------------------------ properties of the global mean
Bs1Done == pc = "baseline1"

RECURSIVE LabelSum(_)
LabelSum(data_list) ==
    IF data_list = <<>> THEN 0 ELSE Head(data_list).label.n + LabelSum(Tail(data_list))

\* every instance of the validation set gets the one value bs1_prediction
Bs1Constant ==
    /\ Len(bs1_predictions) = Len(validation_data_list)
    /\ \A i \in 1..Len(bs1_predictions) : bs1_predictions[i] = bs1_prediction

ExampleLabels == <<5, 3, 4>>

\* C8 as stated: the global-mean baseline predicts, for every input, the
\* arithmetic mean of all training ratings.
C8_ExactGlobalMean ==
    (Bs1Done /\ train_data_list # <<>>) =>
        /\ Bs1Constant
        /\ bs1_prediction.d > 0
        /\ bs1_prediction.n * Len(train_data_list)
               = LabelSum(train_data_list) * bs1_prediction.d

\* C8 amended: the global-mean baseline predicts, for every input, the same
\* constant: the arithmetic mean of all training ratings rounded to two
\* decimal places; for the ratings 5, 3, 4 that constant is 4.
C8_RoundedGlobalMean ==
    (Bs1Done /\ train_data_list # <<>>) =>
        /\ Bs1Constant
        /\ bs1_prediction.d > 0
        /\ 100 % bs1_prediction.d = 0
        /\ 2 * Abs(100 * LabelSum(train_data_list)
                     - Hundredths(bs1_prediction) * Len(train_data_list))
               <= Len(train_data_list)
        /\ [i \in 1..Len(train_data_list) |-> train_data_list[i].label.n] = ExampleLabels
               => bs1_prediction = Num(4)

\* three training ratings summing to 10: the prediction is 3.33 for both
\* validation instances
C8_Witness ==
    /\ Bs1Done
    /\ Len(train_data_list) = 3
    /\ LabelSum(train_data_list) = 10
    /\ bs1_predictions = <<Rat(333, 100), Rat(333, 100)>>
    /\ validation_data_list[1].in0 # validation_data_list[2].in0

\* C9: with an empty training set the global-mean baseline surfaces the
\* failure: the prediction is NaN and the validation loss is NaN or an
\* error, never an ordinary number.
C9_EmptyTrainingSetReported ==
    (Bs1Done /\ train_data_list = <<>>) =>
        /\ IsNaN(bs1_prediction)
        /\ \/ bs1_loss.kind = "raise"
           \/ bs1_loss.kind = "return" /\ IsNaN(bs1_loss.val)

C9_Witness ==
    /\ Bs1Done
    /\ train_data_list = <<>>
    /\ Len(valid_r_label) = 2
    /\ bs1_predictions = <<NaN, NaN>>
    /\ bs1_loss = Return(NaN)

\* ------------------------------------------- properties of binarization
Binarized == pc \in {"binarized", "formatted_c"}

ClassOf(rating, t) == IF rating > t THEN Num(1) ELSE Num(0)

\* C7: a binarized label is 1 if the rating is strictly greater than the
\* threshold and 0 otherwise (threshold 3: rating 4 gives 1, ratings 3 and 2
\* give 0), and the training labels, the validation labels and the
\* evaluation labels are all cut at the same threshold 3.
C7_SameStrictThreshold ==
    /\ Binarized =>
           /\ Len(train_c) = Len(train_data_list)
           /\ Len(valid_c) = Len(validation_data_list)
           /\ \A i \in 1..Len(train_c) :
                  train_c[i].label = ClassOf(train_data_list[i].label.n, 3)
           /\ \A i \in 1..Len(valid_c) :
                  valid_c[i].label = ClassOf(validation_data_list[i].label.n, 3)
    /\ pc = "formatted_c" =>
           /\ Len(valid_c_label) = Len(validation_data_list)
           /\ \A i \in 1..Len(valid_c_label) :
                  /\ valid_c_label[i] = ClassOf(validation_data_list[i].label.n, 3)
                  /\ valid_c_label[i] = valid_c[i].label

\* ratings 4, 3, 2 in the training list become 1, 0, 0, and a validation
\* rating 4 is labelled 1 at both call sites
C7_Witness ==
    /\ pc = "formatted_c"
    /\ LabelsOf(train_data_list) = <<Num(4), Num(3), Num(2)>>
    /\ LabelsOf(train_c) = <<Num(1), Num(0), Num(0)>>
    /\ LabelsOf(validation_data_list) = <<Num(4), Num(3)>>
    /\ LabelsOf(valid_c) = <<Num(1), Num(0)>>
    /\ valid_c_label = <<Num(1), Num(0)>>

\* the entries of the rows with the given key, in file order
UserEntries(rows, u) ==
    LET mine == SelectSeq(rows, LAMBDA r : r.user = u) IN
    [i \in 1..Len(mine) |-> <<mine[i].item, mine[i].rating>>]

ItemEntries(rows, m) ==
    LET mine == SelectSeq(rows, LAMBDA r : r.item = m) IN
    [i \in 1..Len(mine) |-> <<mine[i].user, mine[i].rating>>]

RECURSIVE TotalEntries(_, _)
TotalEntries(d, keys) ==
    IF keys = {} THEN 0
    ELSE LET k == CHOOSE x \in keys : TRUE IN
         Len(d[k]) + TotalEntries(d, keys \ {k})

\* C11: the aggregator neither drops, deduplicates nor invents entries: the
\* buckets of each index hold as many entries in total as the file has rows
\* (a repeated pair once per occurrence), and each bucket lists its entries
\* in file order.
C11_CountAndOrderKept ==
    Indexed =>
        /\ TotalEntries(to_users_dict, DOMAIN to_users_dict) = Len(train_file)
        /\ TotalEntries(to_movies_dict, DOMAIN to_movies_dict) = Len(train_file)
        /\ \A u \in DOMAIN to_users_dict :
               to_users_dict[u] = UserEntries(train_file, u)
        /\ \A m \in DOMAIN to_movies_dict :
               to_movies_dict[m] = ItemEntries(train_file, m)

\* user 1 rates movie 1 twice with the same rating, with another user's row
\* in between: both occurrences are in the bucket
C11_Witness ==
    /\ Indexed
    /\ Len(train_file) = 3
    /\ train_file[1] = train_file[3]
    /\ train_file[2].user # train_file[1].user
    /\ Len(to_users_dict[train_file[1].user]) = 2
    /\ Len(to_movies_dict[train_file[1].item]) = 3

\* ------------------------------------------ properties of class accuracy
AccCalled == accuracy # NotCalled
AccRows == Unwrap(predictions)

\* the predictions whose class at threshold 0.5 equals the label
AccHits ==
    {i \in 1..Len(AccRows) :
        (2 * RowScore(AccRows[i]).n > RowScore(AccRows[i]).d) <=> (valid_c_label[i] = Num(1))}

AccExample ==
    /\ [i \in 1..Len(AccRows) |-> RowScore(AccRows[i])]
           = <<Rat(3, 5), Rat(2, 5), Rat(1, 2)>>
    /\ valid_c_label = <<Num(1), Num(0), Num(0)>>

\* the accuracy is the fraction of predictions whose class equals the label
AccIsFractionOfHits ==
    /\ accuracy.kind = "return"
    /\ accuracy.val.d > 0
    /\ accuracy.val.n * Len(valid_c_label) = Cardinality(AccHits) * accuracy.val.d

ParseNumber(tok) == CHOOSE i \in 0..99 : Str(i) = tok

\* re-parsing one line: the (label, user_id, item_id) triple, provided the
\* line is an object with exactly the three fields
ParseLine(line) ==
    IF /\ Len(line) = 17
       /\ line[2] = "\"in0\"" /\ line[8] = "\"in1\"" /\ line[14] = "\"label\""
    THEN <<ParseNumber(line[16]), ParseNumber(line[5]), ParseNumber(line[11])>>
    ELSE <<-1, -1, -1>>

ParseFile(f) == [i \in 1..Len(f.lines) |-> ParseLine(f.lines[i])]

TriplesOf(data_list) ==
    [i \in 1..Len(data_list) |->
        <<data_list[i].label.n, data_list[i].in0[1], data_list[i].in1[1]>>]

\* C13: re-parsing a written file gives back the (label, user_id, item_id)
\* triples of the data list it was written from, one per example and in the
\* same order.
C13_RoundTrip ==
    /\ pc # "start" =>
           /\ train_r_jsonl.exists
           /\ validation_r_jsonl.exists
           /\ ParseFile(train_r_jsonl) = TriplesOf(train_data_list)
           /\ ParseFile(validation_r_jsonl) = TriplesOf(validation_data_list)
    /\ pc \in {"binarized", "formatted_c"} =>
           /\ train_c_jsonl.exists
           /\ validation_c_jsonl.exists
           /\ ParseFile(train_c_jsonl) = TriplesOf(train_c)
           /\ ParseFile(validation_c_jsonl) = TriplesOf(valid_c)

\* a training list with the same example twice around another one, out of
\* rating order: three lines, and the binarized file repeats a line as well
C13_Witness ==
    /\ pc = "binarized"
    /\ Len(train_data_list) = 3
    /\ train_data_list[1] = train_data_list[3]
    /\ train_data_list[1].label = Num(5)
    /\ train_data_list[2].label = Num(2)
    /\ Len(train_r_jsonl.lines) = 3
    /\ Len(train_c_jsonl.lines) = 3
    /\ ParseFile(train_c_jsonl)[2][1] = 0

\* ------------------------------------------ properties of the Baseline 2 cell
BatchIds == [i \in 1..Len(test_data.instances) |-> Str(test_data.instances[i].in0[1])]

BatchHasUnknownUser == \E i \in 1..Len(BatchIds) : BatchIds[i] \notin DOMAIN to_users_dict

\* C14: a run of the cell over instances of which one names a user without a
\* bucket ends in the error, with no predictions and no score; predictions
\* that are returned are one per instance; and a score is returned only for
\* as many predictions as labels, the mismatch being an error.
C14_NoPartialResult ==
    pc = "scored" =>
        /\ BatchHasUnknownUser =>
               /\ bs2 = Raise("KeyError")
               /\ res = PyList(<<>>)
               /\ mse = NotCalled
        /\ ~BatchHasUnknownUser =>
               /\ bs2.kind = "return"
               /\ Len(bs2.val) = Len(test_data.instances)
               /\ Len(res.items) = Len(test_data.instances)
               /\ Len(labels) # Len(bs2.val) => mse = Raise("AssertionError")
               /\ (Len(labels) = Len(bs2.val) /\ Len(labels) > 0) => mse.kind = "return"

\* the unknown user comes second, after an instance of a user with ratings
C14_Witness ==
    /\ pc = "scored"
    /\ Len(test_data.instances) = 2
    /\ BatchIds[1] \in DOMAIN to_users_dict
    /\ BatchIds[2] \notin DOMAIN to_users_dict
    /\ bs2 = Raise("KeyError")

\* C15: a run of the Baseline 2 cell, in either mode, successful or failing,
\* leaves both indexes, the test instances and the labels as they were.
C15_IndexesReadOnly ==
    [][(pc = "indexed" \/ pc = "scored") =>
          (to_users_dict' = to_users_dict /\ to_movies_dict' = to_movies_dict
           /\ test_data' = test_data /\ labels' = labels)]_vars

\* a failing run in classification mode over a non-empty index
C15_Witness ==
    /\ pc = "scored"
    /\ is_classification
    /\ bs2 = Raise("KeyError")
    /\ DOMAIN to_users_dict = {"1", "2"}
    /\ to_users_dict = csv_to_augmented_data_dict(train_file).users
    /\ to_movies_dict = csv_to_augmented_data_dict(train_file).movies
    /\ Len(test_data.instances) = 2

\* ----------------------------------------- properties of the orchestration
RatingPaths == [d \in {"train", "validation"} |-> Key("rating", d)]
RecommendationPaths == [d \in {"train", "validation"} |-> Key("recommendation", d)]

EstimatorOf(m) == IF m = "ratingModel" THEN regressor ELSE classifier
PathsOf(m) == IF m = "ratingModel" THEN RatingPaths ELSE RecommendationPaths

\* the model was fitted on its own two files, and they are in S3
Trained(m) ==
    /\ EstimatorOf(m) = Fitted(PathsOf(m))
    /\ \A d \in DOMAIN PathsOf(m) : PathsOf(m)[d] \in s3

RequestsTo(m) == {i \in 1..Len(requests) : requests[i].endpoint = m}

\* C16: an endpoint exists only for a model fitted on its own uploaded data;
\* every inference request reached an endpoint that was in service, so none
\* came before the deploy or after the deletion; and when the clean-up cell
\* has run, both endpoints are deleted, each having served its request.
C16_EndpointUsedWhileItExists ==
    /\ \A m \in ModelNames : endpoints[m] # "none" => Trained(m)
    /\ \A i \in 1..Len(requests) :
           /\ requests[i].status = "InService"
           /\ Trained(requests[i].endpoint)
    /\ prediction # NotCalled => RequestsTo("ratingModel") # {}
    /\ pc = "done" =>
           /\ \A m \in ModelNames : endpoints[m] = "deleted"
           /\ predictor = "ratingModel" /\ predictor_2 = "recommendationModel"
           /\ \A m \in ModelNames : RequestsTo(m) # {}

\* a complete run over a non-empty validation list
C16_Witness ==
    /\ pc = "done"
    /\ Len(validation_data_list) = 2
    /\ Len(requests) = 2
    /\ requests[1].endpoint = "ratingModel"
    /\ requests[2].endpoint = "recommendationModel"
    /\ endpoints = [m \in ModelNames |-> "deleted"]
    /\ prediction.kind = "return"
    /\ Len(predictions.predictions) = 2

====
